---- MODULE Spec2Model ----
(***************************************************************************)
(* A model of the STV counting engine of stv_model/model.py: candidate and *)
(* ballot registration, the round state machine of Election._do_run_round, *)
(* surplus and elimination transfers, tallies and the ranking key.         *)
(*                                                                         *)
(* Weights and tallies are decimal.Decimal values.  A Decimal is modelled  *)
(* as a record [c |-> coefficient, e |-> exponent] standing for c * 10^e,  *)
(* kept in canonical form (no trailing zero in c), and every arithmetic    *)
(* operation rounds its exact result half-even to DecimalPrec significant  *)
(* digits, as the decimal context does.                                    *)
(***************************************************************************)
EXTENDS Integers, Sequences, FiniteSets, TLC

\* ------------------------------------------------------------------ bounds
\* Significant digits of the decimal context (the interpreter's is 28).
DecimalPrec == 3
\* The most votes Election.from_votes is given.
MaxVotes == 2
\* The most ballots of an election: the votes and the ballots registered after.
MaxBallots == 3
\* The longest preference list of a ballot.
MaxPrefs == 2
\* The greatest seat count the constructor is given.
MaxSeats == 2
\* The greatest round cap run_count is given.
MaxRoundCap == 3

\* The candidate identifiers a caller uses.
CandidateIds == {"A", "B", "C"}

\* ----------------------------------------------------------------- Decimal
RECURSIVE Pow10(_)
Pow10(n) == IF n <= 0 THEN 1 ELSE 10 * Pow10(n - 1)

Abs(n) == IF n < 0 THEN -n ELSE n

Sign(n) == IF n < 0 THEN -1 ELSE IF n = 0 THEN 0 ELSE 1

RECURSIVE NumDigits(_)
NumDigits(n) == IF Abs(n) < 10 THEN 1 ELSE 1 + NumDigits(Abs(n) \div 10)

\* The canonical form of c * 10^e.
RECURSIVE Norm(_, _)
Norm(c, e) ==
    IF c = 0 THEN [c |-> 0, e |-> 0]
    ELSE IF c % 10 = 0 THEN Norm(c \div 10, e + 1)
    ELSE [c |-> c, e |-> e]

\* Decimal(n) of an int n.
Dec(n) == Norm(n, 0)

\* The exact value c * 10^e rounded half-even to DecimalPrec digits.
RoundPrec(c, e) ==
    LET d == NumDigits(c)
        k == d - DecimalPrec
        m == Abs(c)
        q == m \div Pow10(k)
        r == m % Pow10(k)
        half == 5 * Pow10(k - 1)
        up == r > half \/ (r = half /\ q % 2 = 1)
    IN  IF c = 0 \/ k <= 0 THEN Norm(c, e)
        ELSE Norm(Sign(c) * (IF up THEN q + 1 ELSE q), e + k)

\* The position of the leading digit: x < 10^Top(x).
Top(x) == NumDigits(x.c) + x.e

\* Decimal.__add__
DecAdd(x, y) ==
    IF x.c = 0 THEN y
    ELSE IF y.c = 0 THEN x
    ELSE IF Top(y) < Top(x) - DecimalPrec - 1 THEN x
    ELSE IF Top(x) < Top(y) - DecimalPrec - 1 THEN y
    ELSE LET e == IF x.e < y.e THEN x.e ELSE y.e
         IN  RoundPrec(x.c * Pow10(x.e - e) + y.c * Pow10(y.e - e), e)

DecNeg(x) == [c |-> -x.c, e |-> x.e]

\* Decimal.__sub__
DecSub(x, y) == DecAdd(x, DecNeg(y))

\* Decimal.__mul__
DecMul(x, y) == RoundPrec(x.c * y.c, x.e + y.e)

\* The least s with |a| * 10^s >= |b| * 10^DecimalPrec.
RECURSIVE DivShift(_, _, _)
DivShift(a, b, s) ==
    IF a * Pow10(s) >= b * Pow10(DecimalPrec) THEN s ELSE DivShift(a, b, s + 1)

\* Decimal.__truediv__ (y is not zero)
DecDiv(x, y) ==
    IF x.c = 0 THEN Dec(0)
    ELSE LET a == Abs(x.c)
             b == Abs(y.c)
             s == DivShift(a, b, 0)
             Q == (a * Pow10(s)) \div b
             R == (a * Pow10(s)) % b
             q == Q \div 10
             d == Q % 10
             up == d > 5 \/ (d = 5 /\ R > 0) \/ (d = 5 /\ R = 0 /\ q % 2 = 1)
         IN  Norm(Sign(x.c) * Sign(y.c) * (IF up THEN q + 1 ELSE q),
                  x.e - y.e - s + 1)

\* Decimal.__lt__: exact, no rounding.
DecLt(x, y) ==
    IF Sign(x.c) # Sign(y.c) THEN Sign(x.c) < Sign(y.c)
    ELSE IF x.c = 0 THEN FALSE
    ELSE IF Top(x) # Top(y)
         THEN IF x.c > 0 THEN Top(x) < Top(y) ELSE Top(x) > Top(y)
    ELSE LET e == IF x.e < y.e THEN x.e ELSE y.e
         IN  x.c * Pow10(x.e - e) < y.c * Pow10(y.e - e)

DecLe(x, y) == x = y \/ DecLt(x, y)

\* int(x): truncation toward zero.
DecToInt(x) ==
    IF x.e >= 0 THEN x.c * Pow10(x.e)
    ELSE Sign(x.c) * (Abs(x.c) \div Pow10(-x.e))

\* The decimal places quantize rounds to by default.
QuantizePlaces == 6

\* quantize(value, places=6): value rounded half-even to that many places.
quantize(value) ==
    LET k == -QuantizePlaces - value.e
        m == Abs(value.c)
        q == m \div Pow10(k)
        r == m % Pow10(k)
        half == 5 * Pow10(k - 1)
        up == r > half \/ (r = half /\ q % 2 = 1)
    IN  IF k <= 0 THEN value
        ELSE Norm(Sign(value.c) * (IF up THEN q + 1 ELSE q), -QuantizePlaces)

\* --------------------------------------------------------------- inputs
\* None, for quota, num_ballots and last_transfer_round.
NoneVal == -1

\* The strengths a caller gives a ballot: 0, 0.5, 1 and 2.
Strengths == {Dec(0), [c |-> 5, e |-> -1], Dec(1), Dec(2)}

\* str.__lt__ on the candidate identifiers.
IdRank(id) ==
    CASE id = "A" -> 1 [] id = "B" -> 2 [] id = "C" -> 3 [] id = "D" -> 4
      [] id = "a" -> 5 [] id = "b" -> 6 [] id = "c" -> 7 [] id = "d" -> 8
      [] id = "e" -> 9

\* The identifiers compared the other way round.
IdGt(a, b) == IdRank(a) > IdRank(b)

IdLt(a, b) == IdRank(a) < IdRank(b)

\* The preference lists over the candidates in S: no repeats, at most
\* MaxPrefs long.
PrefLists(S) ==
    UNION {{p \in [1..n -> S] : \A i, j \in 1..n : i # j => p[i] # p[j]}
           : n \in 0..MaxPrefs}

\* ----------------------------------------------------------- state
VARIABLES
    num_seats,        \* Election.num_seats
    quota,            \* Election.quota, NoneVal until round 1
    round_idx,        \* Election._round_idx
    num_ballots,      \* Election.num_ballots, NoneVal until round 1
    candidates,       \* Election.candidates: id -> Candidate
    candidate_order,  \* the insertion order of Election.candidates
    ballots,          \* Election.ballots: ballot id -> Ballot
    ballot_order,     \* the insertion order of Election.ballots
    slices,           \* Election.slices: slice id -> Slice
    ballot_slices,    \* Election.ballot_slices: ballot id -> slice ids
    piles,            \* Election.piles: candidate id -> slice ids
    event_logs,       \* Election.event_logs: round index -> events
    slice_id,         \* Election._slice_id
    pc,               \* the caller's position: "idle" or inside a round
    queue,            \* the candidates _do_run_round has still to transfer
    result            \* how the last call ended: "ok" or the exception

elVars == <<num_seats, quota, round_idx, num_ballots, candidates,
            candidate_order, ballots, ballot_order, slices, ballot_slices, piles,
            event_logs, slice_id>>

vars == <<num_seats, quota, round_idx, num_ballots, candidates,
          candidate_order, ballots, ballot_order, slices, ballot_slices, piles,
          event_logs, slice_id, pc, queue, result>>

\* The Election object as one value.
El == [num_seats |-> num_seats, quota |-> quota, round_idx |-> round_idx,
       num_ballots |-> num_ballots, candidates |-> candidates,
       candidate_order |-> candidate_order, ballots |-> ballots,
       ballot_order |-> ballot_order,
       slices |-> slices, ballot_slices |-> ballot_slices, piles |-> piles,
       event_logs |-> event_logs, slice_id |-> slice_id]

\* The Election object becomes el.
Becomes(el) ==
    /\ num_seats' = el.num_seats
    /\ quota' = el.quota
    /\ round_idx' = el.round_idx
    /\ num_ballots' = el.num_ballots
    /\ candidates' = el.candidates
    /\ candidate_order' = el.candidate_order
    /\ ballots' = el.ballots
    /\ ballot_order' = el.ballot_order
    /\ slices' = el.slices
    /\ ballot_slices' = el.ballot_slices
    /\ piles' = el.piles
    /\ event_logs' = el.event_logs
    /\ slice_id' = el.slice_id

\* ------------------------------------------------- Ballot, Candidate
\* Ballot.is_valid
is_valid(ballot) == DecLt(Dec(0), ballot.strength) /\ Len(ballot.prefs) > 0

\* Candidate(id=...)
NewCandidate ==
    [status |-> "running", tallies |-> <<Dec(0)>>,
     tally_after_first |-> Dec(0), tally_before_done |-> Dec(0)]

\* Candidate.tally
tally(candidate) ==
    IF Len(candidate.tallies) = 0 THEN Dec(0)
    ELSE candidate.tallies[Len(candidate.tallies)]

\* Election.round_no
round_no(el) == el.round_idx + 1

\* Election.num_elected
num_elected(el) ==
    Cardinality({c \in DOMAIN el.candidates : el.candidates[c].status = "elected"})

\* Election.num_to_elect
num_to_elect(el) == el.num_seats - num_elected(el)

\* Election.num_running
num_running(el) ==
    Cardinality({c \in DOMAIN el.candidates : el.candidates[c].status = "running"})

\* m[k] = [v]: the list under k is replaced, not extended.
MapPut(m, k, v) == [c \in DOMAIN m \cup {k} |-> IF c = k THEN <<v>> ELSE m[c]]

\* dict.setdefault(k, []).append(v)
MapAppend(m, k, v) ==
    IF k \in DOMAIN m THEN [m EXCEPT ![k] = Append(@, v)] ELSE m @@ (k :> <<v>>)

\* Election.log_event: the event's kind and its candidate.
log_event(el, kind, cand) ==
    [el EXCEPT !.event_logs[round_no(el) - 1] =
        Append(@, [kind |-> kind, cand |-> cand])]

\* A _create_slice that asks for preferences and not for a positive
\* strength.
_create_slice_any_strength(el, ballot_id) ==
    LET ballot == el.ballots[ballot_id]
        slice == [ballot_id |-> ballot_id, current_idx |-> 0,
                  weight |-> ballot.strength, assigned_to |-> ballot.prefs[1],
                  last_transfer_round |-> NoneVal,
                  last_transfer_reason |-> "none"]
    IN  IF Len(ballot.prefs) = 0 THEN el
        ELSE [el EXCEPT
                !.slices = @ @@ (el.slice_id :> slice),
                !.ballot_slices = MapAppend(@, ballot_id, el.slice_id),
                !.piles = MapAppend(@, ballot.prefs[1], el.slice_id),
                !.slice_id = @ + 1]

\* Election._create_slice
_create_slice(el, ballot_id) ==
    LET ballot == el.ballots[ballot_id]
        first_pref == ballot.prefs[1]
        slice == [ballot_id |-> ballot_id, current_idx |-> 0,
                  weight |-> ballot.strength, assigned_to |-> first_pref,
                  last_transfer_round |-> NoneVal,
                  last_transfer_reason |-> "none"]
    IN  IF ~is_valid(ballot) THEN el
        ELSE [el EXCEPT
                !.slices = @ @@ (el.slice_id :> slice),
                !.ballot_slices = MapAppend(@, ballot_id, el.slice_id),
                !.piles = MapAppend(@, first_pref, el.slice_id),
                !.slice_id = @ + 1]

\* ------------------------------------------------------------- tallies
\* sum(self.slices[slice_id].weight for slice_id in pile), left to right.
RECURSIVE SumWeights(_, _, _, _)
SumWeights(el, pile, i, acc) ==
    IF i > Len(pile) THEN acc
    ELSE SumWeights(el, pile, i + 1, DecAdd(acc, el.slices[pile[i]].weight))

\* The tallies of one candidate after run_tally has stored tally t.
StoreTally(el, tallies, t) ==
    IF Len(tallies) = 0 \/ Len(tallies) < round_no(el)
    THEN Append(tallies, t)
    ELSE [tallies EXCEPT ![IF el.round_idx < 0
                           THEN Len(tallies) + el.round_idx + 1
                           ELSE el.round_idx + 1] = t]

\* Election.run_tally: only the candidates that have a pile are tallied.
run_tally(el) ==
    [el EXCEPT !.candidates =
        [c \in DOMAIN @ |->
            IF c \in DOMAIN el.piles
            THEN [@[c] EXCEPT !.tallies =
                    StoreTally(el, @, SumWeights(el, el.piles[c], 1, Dec(0)))]
            ELSE @[c]]]

\* ------------------------------------------------------------- ranking
\* The comparison of tuple(-t for t in reversed(tallies)) of two candidates
\* from position i (0 is the last tally): -1, 0 or 1, as tuples compare.
RECURSIVE CmpHistory(_, _, _)
CmpHistory(tx, ty, i) ==
    IF i >= Len(tx) /\ i >= Len(ty) THEN 0
    ELSE IF i >= Len(tx) THEN -1
    ELSE IF i >= Len(ty) THEN 1
    ELSE LET a == tx[Len(tx) - i]
             b == ty[Len(ty) - i]
         IN  IF DecLt(b, a) THEN -1
             ELSE IF DecLt(a, b) THEN 1
             ELSE CmpHistory(tx, ty, i + 1)

\* A key made of the tallies alone, without the candidate's id.
by_tally_desc(el, x, y) ==
    CmpHistory(el.candidates[x].tallies, el.candidates[y].tallies, 0) < 0

\* Key.by_tally_desc_then_id(x) < Key.by_tally_desc_then_id(y)
by_tally_desc_then_id(el, x, y) ==
    LET h == CmpHistory(el.candidates[x].tallies, el.candidates[y].tallies, 0)
    IN  h < 0 \/ (h = 0 /\ IdLt(x, y))

\* One step of the stable sort: x goes before the first element it is less
\* than.
RECURSIVE InsertByKey(_, _, _, _)
InsertByKey(el, sorted, x, i) ==
    IF i > Len(sorted) THEN Append(sorted, x)
    ELSE IF by_tally_desc_then_id(el, x, sorted[i])
         THEN SubSeq(sorted, 1, i - 1) \o <<x>> \o SubSeq(sorted, i, Len(sorted))
    ELSE InsertByKey(el, sorted, x, i + 1)

RECURSIVE SortByKey(_, _, _, _)
SortByKey(el, order, i, sorted) ==
    IF i > Len(order) THEN sorted
    ELSE SortByKey(el, order, i + 1, InsertByKey(el, sorted, order[i], 1))

\* The candidates as registered, without the sort.
_get_candidates_in_order(el) == el.candidate_order

\* Election._get_candidates_by_tally: sorted(self.candidates.values(), key)
_get_candidates_by_tally(el) == SortByKey(el, el.candidate_order, 1, <<>>)

\* [c for c in seq if c is running]
RECURSIVE RunningOf(_, _)
RunningOf(el, seq) ==
    IF Len(seq) = 0 THEN <<>>
    ELSE (IF el.candidates[Head(seq)].status = "running"
          THEN <<Head(seq)>> ELSE <<>>) \o RunningOf(el, Tail(seq))

\* ranked_candidates of _do_run_round
ranked_candidates(el) == RunningOf(el, _get_candidates_by_tally(el))

\* ------------------------------------------------------------ transfers
\* The index of the first preference after current_idx whose candidate is
\* running with tally < quota, or NoneVal (indices count from 0).
RECURSIVE next_eligible(_, _, _)
next_eligible(el, prefs, next_idx) ==
    IF next_idx >= Len(prefs) THEN NoneVal
    ELSE LET candidate == el.candidates[prefs[next_idx + 1]]
         IN  IF candidate.status = "running"
                /\ DecLt(tally(candidate), Dec(el.quota))
             THEN next_idx
             ELSE next_eligible(el, prefs, next_idx + 1)

\* Election._build_next_slice
_build_next_slice(el, sid, weight, reason) ==
    LET slice == el.slices[sid]
        ballot == el.ballots[slice.ballot_id]
        next_idx == next_eligible(el, ballot.prefs, slice.current_idx + 1)
        candidate_id == ballot.prefs[next_idx + 1]
        next_slice == [ballot_id |-> slice.ballot_id, current_idx |-> next_idx,
                       weight |-> weight, assigned_to |-> candidate_id,
                       last_transfer_round |-> round_no(el),
                       last_transfer_reason |-> reason]
    IN  IF next_idx = NoneVal THEN el
        ELSE log_event(
               [el EXCEPT
                  !.slices = @ @@ (el.slice_id :> next_slice),
                  !.ballot_slices = MapAppend(@, slice.ballot_id, el.slice_id),
                  !.piles = MapAppend(@, candidate_id, el.slice_id),
                  !.slice_id = @ + 1],
               "transfer", candidate_id)

\* dict.get(candidate_id, [])
PileOf(el, candidate_id) ==
    IF candidate_id \in DOMAIN el.piles THEN el.piles[candidate_id] ELSE <<>>

\* The loop of elect over the slices of the pile.
RECURSIVE elect_transfer(_, _, _, _, _)
elect_transfer(el, pile, i, transfer_quotient, remaining_quotient) ==
    IF i > Len(pile) THEN el
    ELSE LET original_weight == el.slices[pile[i]].weight
             shrunk == [el EXCEPT !.slices[pile[i]].weight =
                            DecMul(@, remaining_quotient)]
         IN  elect_transfer(
               _build_next_slice(shrunk, pile[i],
                   DecMul(transfer_quotient, original_weight), "elected"),
               pile, i + 1, transfer_quotient, remaining_quotient)

\* An elect that returns early only on a negative surplus, so that a
\* surplus of zero is transferred like any other.
elect_unless_deficit(el, candidate_id, transfer_surplus) ==
    LET t == tally(el.candidates[candidate_id])
        surplus == DecSub(t, Dec(el.quota))
        marked == log_event(
            [el EXCEPT !.candidates[candidate_id].status = "elected",
                       !.candidates[candidate_id].tally_before_done = t],
            "elected", candidate_id)
        transfer_quotient == DecDiv(surplus, t)
        remaining_quotient == DecSub(Dec(1), transfer_quotient)
    IN  IF ~transfer_surplus \/ DecLt(surplus, Dec(0)) THEN marked
        ELSE elect_transfer(log_event(marked, "quotient", candidate_id),
                            PileOf(el, candidate_id), 1,
                            transfer_quotient, remaining_quotient)

\* Election.elect
elect(el, candidate_id, transfer_surplus) ==
    LET t == tally(el.candidates[candidate_id])
        surplus == DecSub(t, Dec(el.quota))
        marked == log_event(
            [el EXCEPT !.candidates[candidate_id].status = "elected",
                       !.candidates[candidate_id].tally_before_done = t],
            "elected", candidate_id)
        transfer_quotient == DecDiv(surplus, t)
        remaining_quotient == DecSub(Dec(1), transfer_quotient)
    IN  IF ~transfer_surplus \/ DecLe(surplus, Dec(0)) THEN marked
        ELSE elect_transfer(log_event(marked, "quotient", candidate_id),
                            PileOf(el, candidate_id), 1,
                            transfer_quotient, remaining_quotient)

\* The loop of eliminate, with the weight copied to the successor and left
\* on the slice.
RECURSIVE eliminate_transfer_copying(_, _, _)
eliminate_transfer_copying(el, pile, i) ==
    IF i > Len(pile) THEN el
    ELSE eliminate_transfer_copying(
           _build_next_slice(el, pile[i], el.slices[pile[i]].weight, "eliminated"),
           pile, i + 1)

\* The loop of eliminate over the slices that were in the pile.
RECURSIVE eliminate_transfer(_, _, _)
eliminate_transfer(el, pile, i) ==
    IF i > Len(pile) THEN el
    ELSE LET transfer_value == el.slices[pile[i]].weight
             zeroed == [el EXCEPT !.slices[pile[i]].weight = Dec(0)]
         IN  eliminate_transfer(
               _build_next_slice(zeroed, pile[i], transfer_value, "eliminated"),
               pile, i + 1)

\* Election.eliminate
eliminate(el, candidate_id, transfer_surplus) ==
    LET logged == log_event(el, "eliminated", candidate_id)
        cleared == [logged EXCEPT
                      !.candidates[candidate_id].status = "eliminated",
                      !.piles = [c \in DOMAIN @ \cup {candidate_id} |->
                                   IF c = candidate_id THEN <<>> ELSE @[c]]]
    IN  IF ~transfer_surplus THEN cleared
        ELSE eliminate_transfer(cleared, PileOf(el, candidate_id), 1)

\* A loop that elects every candidate, whatever its status.
RECURSIVE elect_everyone(_, _)
elect_everyone(el, i) ==
    IF i > Len(el.candidate_order) THEN el
    ELSE elect_everyone(elect(el, el.candidate_order[i], FALSE), i + 1)

\* The loop of _finish_run: every running candidate, in the order of
\* self.candidates, is elected without transfer.
RECURSIVE elect_remaining(_, _)
elect_remaining(el, i) ==
    IF i > Len(el.candidate_order) THEN el
    ELSE elect_remaining(
           IF el.candidates[el.candidate_order[i]].status = "running"
           THEN elect(el, el.candidate_order[i], FALSE) ELSE el,
           i + 1)

\* A finish that tallies and elects nobody.
_finish_run_tally_only(el) == run_tally(el)

\* Election._finish_run
_finish_run(el) ==
    run_tally(IF num_to_elect(el) = num_running(el)
              THEN elect_remaining(el, 1) ELSE el)

\* --------------------------------------------------------------- rounds
\* sum(ballot.strength for ballot in self.ballots.values() if ballot.is_valid)
RECURSIVE SumStrengths(_, _, _)
SumStrengths(el, i, acc) ==
    IF i > Len(el.ballot_order) THEN acc
    ELSE LET ballot == el.ballots[el.ballot_order[i]]
         IN  SumStrengths(el, i + 1,
                 IF is_valid(ballot) THEN DecAdd(acc, ballot.strength) ELSE acc)

\* Election._calc_num_ballots
_calc_num_ballots(el) ==
    [el EXCEPT !.num_ballots = DecToInt(SumStrengths(el, 1, Dec(0)))]

\* The quota without its increment: num_ballots // (num_seats + 1).
_calc_quota_no_increment(el) ==
    [el EXCEPT !.quota = el.num_ballots \div (el.num_seats + 1)]

\* A quota that divides by the seats, not by the seats plus one.
_calc_quota_by_seats(el) ==
    [el EXCEPT !.quota = (el.num_ballots \div el.num_seats) + 1]

\* Election._calc_quota
_calc_quota(el) ==
    [el EXCEPT !.quota = (el.num_ballots \div (el.num_seats + 1)) + 1]

\* seq[:k], as Python slices a list.
PyPrefix(seq, k) ==
    LET n == IF k >= 0 THEN (IF k < Len(seq) THEN k ELSE Len(seq))
             ELSE (IF Len(seq) + k > 0 THEN Len(seq) + k ELSE 0)
    IN  SubSeq(seq, 1, n)

\* reversed(seq)
Reversed(seq) == [i \in 1..Len(seq) |-> seq[Len(seq) + 1 - i]]

\* The candidates of seq whose tally is above the quota, one that equals
\* it not counting.
RECURSIVE AboveQuota(_, _)
AboveQuota(el, seq) ==
    IF Len(seq) = 0 THEN <<>>
    ELSE (IF DecLt(Dec(el.quota), tally(el.candidates[Head(seq)]))
          THEN <<Head(seq)>> ELSE <<>>) \o AboveQuota(el, Tail(seq))

\* [c for c in seq if P(c)]
RECURSIVE AtQuota(_, _)
AtQuota(el, seq) ==
    IF Len(seq) = 0 THEN <<>>
    ELSE (IF DecLe(Dec(el.quota), tally(el.candidates[Head(seq)]))
          THEN <<Head(seq)>> ELSE <<>>) \o AtQuota(el, Tail(seq))

\* The candidates of seq whose tally is the smallest tally itself.
RECURSIVE TiedExactly(_, _, _)
TiedExactly(el, seq, smallest_tally) ==
    IF Len(seq) = 0 THEN <<>>
    ELSE (IF tally(el.candidates[Head(seq)]) = smallest_tally
          THEN <<Head(seq)>> ELSE <<>>) \o TiedExactly(el, Tail(seq), smallest_tally)

\* [c.id for c in seq if quantize(c.tally) == quantize(smallest_tally)]
RECURSIVE TiedWith(_, _, _)
TiedWith(el, seq, smallest_tally) ==
    IF Len(seq) = 0 THEN <<>>
    ELSE (IF quantize(tally(el.candidates[Head(seq)])) = quantize(smallest_tally)
          THEN <<Head(seq)>> ELSE <<>>) \o TiedWith(el, Tail(seq), smallest_tally)

\* Only the first candidate of the batch is marked before the transfers.
MarkFirstElected(el, elected) ==
    [el EXCEPT !.candidates[elected[1]].status = "elected"]

\* for candidate_id in elected: self.candidates[candidate_id].status = "elected"
MarkElected(el, elected) ==
    [el EXCEPT !.candidates =
        [c \in DOMAIN @ |->
            IF \E i \in 1..Len(elected) : elected[i] = c
            THEN [@[c] EXCEPT !.status = "elected"] ELSE @[c]]]

\* for candidate in self.candidates.values():
\*     candidate.tally_after_first = candidate.tally
SnapshotFirst(tallied) ==
    [tallied EXCEPT !.candidates =
        [c \in DOMAIN @ |->
            [@[c] EXCEPT !.tally_after_first = tally(tallied.candidates[c])]]]

\* The start of round 1: num_ballots, quota, the first tally and
\* tally_after_first.
FirstRound(el) == SnapshotFirst(run_tally(_calc_quota(_calc_num_ballots(el))))

\* The exceptions, by the statement that raises them: the asserts of
\* register_candidate and register_ballot, the assert of run_count, the
\* assert of _do_run_round, and the comparison of a tally with a quota of
\* None.
DuplicateError == "AssertionError: duplicate id"
CountedError == "AssertionError: counted once"
NobodyError == "AssertionError: nobody running"
NoQuotaError == "TypeError"

\* What a part of a round hands on: the election, the exception raised
\* ("none" if none), what the round does next and for which candidates.
Step(el, err, phase, todo) ==
    [el |-> el, err |-> err, phase |-> phase, todo |-> todo]

\* The start of _do_run_round: the round index and its event list.
round_open(el) ==
    [el EXCEPT !.round_idx = @ + 1,
               !.event_logs = IF el.round_idx + 1 \in DOMAIN @ THEN @
                              ELSE @ @@ ((el.round_idx + 1) :> <<>>)]

\* if self.round_no == 1: ...
first_tally(opened) ==
    IF round_no(opened) = 1 THEN FirstRound(opened) ELSE opened

\* The election as _do_run_round ranks it: opened and, in round 1, tallied.
round_ready(el0) == first_tally(round_open(el0))

\* The elimination branch with the last candidate's pile transferred
\* before the forced finish.
round_eliminate_transferring(el, ranked) ==
    IF num_to_elect(el) = num_running(el) - 1
    THEN Step(_finish_run(eliminate(el, ranked[Len(ranked)], TRUE)), "none", "done", <<>>)
    ELSE IF num_to_elect(el) = num_running(el)
    THEN Step(_finish_run(el), "none", "done", <<>>)
    ELSE Step(el, "none", "eliminate",
              PyPrefix(TiedWith(el, Reversed(ranked), tally(el.candidates[ranked[Len(ranked)]])),
                       num_running(el) - num_to_elect(el)))

\* _do_run_round without an elected candidate: what it eliminates.
round_eliminate(el, ranked) ==
    IF num_to_elect(el) = num_running(el) - 1
    THEN Step(_finish_run(eliminate(el, ranked[Len(ranked)], FALSE)),
              "none", "done", <<>>)
    ELSE IF num_to_elect(el) = num_running(el)
    THEN Step(_finish_run(el), "none", "done", <<>>)
    ELSE Step(el, "none", "eliminate",
              PyPrefix(TiedWith(el, Reversed(ranked),
                                tally(el.candidates[ranked[Len(ranked)]])),
                       num_running(el) - num_to_elect(el)))

\* _do_run_round from "if elected:" to the first transfer.
round_decide(el, ranked, elected) ==
    IF Len(elected) > 0
    THEN Step(MarkElected(el, elected), "none", "elect", elected)
    ELSE round_eliminate(el, ranked)

\* A round without the assert on ranked_candidates: with nobody running it
\* returns without doing anything.
round_ranked_silent(el, ranked) ==
    IF Len(ranked) = 0 THEN Step(el, "none", "done", <<>>)
    ELSE IF el.quota = NoneVal THEN Step(el, NoQuotaError, "done", <<>>)
    ELSE round_decide(el, ranked, AtQuota(el, ranked))

\* _do_run_round from the assert on ranked_candidates.
round_ranked(el, ranked) ==
    IF Len(ranked) = 0 THEN Step(el, NobodyError, "done", <<>>)
    ELSE IF el.quota = NoneVal THEN Step(el, NoQuotaError, "done", <<>>)
    ELSE round_decide(el, ranked, AtQuota(el, ranked))

\* _do_run_round from the test of num_elected.
round_tallied(el) == round_ranked(el, ranked_candidates(el))

\* A round that goes on to rank and decide although every seat is filled.
round_started_always(opened) == round_tallied(first_tally(opened))

round_started(opened) ==
    IF num_elected(opened) >= opened.num_seats
    THEN Step(opened, "none", "done", <<>>)
    ELSE round_tallied(first_tally(opened))

\* Election._do_run_round up to its first transfer: everything before the
\* loop over elected, or before the loop over eliminable[:...].
round_head(el0) == round_started(round_open(el0))

\* One pass of the loop over elected (self.elect(candidate_id)) or over
\* eliminable[:...] (self.eliminate(candidate_id)).
transfer_one(el, phase, candidate_id) ==
    IF phase = "elect" THEN elect(el, candidate_id, TRUE)
    ELSE eliminate(el, candidate_id, TRUE)

\* Election._do_run_round after its loop: the forced finish, or the tally.
round_tail(el) ==
    IF num_to_elect(el) = num_running(el) THEN _finish_run(el) ELSE run_tally(el)

RECURSIVE transfer_all(_, _, _)
transfer_all(el, phase, todo) ==
    IF Len(todo) = 0 THEN el
    ELSE transfer_all(transfer_one(el, phase, Head(todo)), phase, Tail(todo))

\* The rest of a round after its head h.
round_rest(h) ==
    IF h.phase = "done" THEN h
    ELSE Step(round_tail(transfer_all(h.el, h.phase, h.todo)),
              "none", "done", <<>>)

\* Election._run_round as one call.
_run_round(el) == round_rest(round_head(el))

\* The end of run_count: the event it records.
count_end(el, max_rounds) ==
    IF (round_no(el) - 1) \notin DOMAIN el.event_logs
    THEN Step(el, "KeyError", "done", <<>>)
    ELSE Step(log_event(el, IF round_no(el) >= max_rounds THEN "cap"
                            ELSE "finished", ""),
              "none", "done", <<>>)

\* The while loop of run_count and what follows it; r is what the round
\* of the loop's body returned.
RECURSIVE count_loop(_, _)
count_next(r, max_rounds) ==
    IF r.err # "none" THEN r ELSE count_loop(r.el, max_rounds)

count_loop(el, max_rounds) ==
    IF num_elected(el) < el.num_seats /\ round_no(el) < max_rounds
    THEN count_next(_run_round(el), max_rounds)
    ELSE count_end(el, max_rounds)

\* A run_count without its assert.
run_count_again(el, max_rounds) == count_loop(el, max_rounds)

\* Election.run_count
run_count(el, max_rounds) ==
    IF round_no(el) # 0 THEN Step(el, CountedError, "done", <<>>)
    ELSE count_loop(el, max_rounds)

\* Election.reset
RECURSIVE create_slices(_, _)
create_slices(el, i) ==
    IF i > Len(el.ballot_order) THEN el
    ELSE create_slices(_create_slice(el, el.ballot_order[i]), i + 1)

reset(el) ==
    create_slices(
        [el EXCEPT
            !.round_idx = 0,
            !.num_ballots = NoneVal,
            !.quota = NoneVal,
            !.slices = <<>>,
            !.ballot_slices = <<>>,
            !.piles = <<>>,
            !.slice_id = 1,
            !.candidates =
                [c \in DOMAIN @ |->
                    [@[c] EXCEPT !.status = "running", !.tallies = <<>>]]],
        1)

\* --------------------------------------------------------- registration
\* Election.register_candidate
register_candidate(el, id) ==
    IF id \in DOMAIN el.candidates THEN Step(el, DuplicateError, "done", <<>>)
    ELSE Step([el EXCEPT !.candidates = @ @@ (id :> NewCandidate),
                         !.candidate_order = Append(@, id)],
              "none", "done", <<>>)

\* A register_ballot without its asserts: the ballot replaces the one
\* stored under the id, and gets a slice.
register_ballot_again(el, id, prefs, strength) ==
    Step(_create_slice(
           [el EXCEPT
              !.ballots = [b \in DOMAIN @ \cup {id} |->
                             IF b = id THEN [prefs |-> prefs, strength |-> strength]
                             ELSE @[b]],
              !.ballot_order = IF id \in DOMAIN el.ballots THEN @ ELSE Append(@, id)],
           id),
         "none", "done", <<>>)

\* Election.register_ballot
register_ballot(el, id, prefs, strength) ==
    IF id \in DOMAIN el.ballots \/ id \in DOMAIN el.ballot_slices
    THEN Step(el, DuplicateError, "done", <<>>)
    ELSE Step(_create_slice(
                [el EXCEPT
                    !.ballots = @ @@ (id :> [prefs |-> prefs, strength |-> strength]),
                    !.ballot_order = Append(@, id)],
                id),
              "none", "done", <<>>)

\* Election.__init__ with candidates=None
NewElection(n) ==
    [num_seats |-> n, quota |-> NoneVal, round_idx |-> -1,
     num_ballots |-> NoneVal, candidates |-> <<>>, candidate_order |-> <<>>,
     ballots |-> <<>>, ballot_order |-> <<>>, slices |-> <<>>,
     ballot_slices |-> <<>>, piles |-> <<>>, event_logs |-> <<>>,
     slice_id |-> 1]

\* The loop of from_votes over the preferences of one vote.
RECURSIVE register_prefs(_, _, _)
register_prefs(el, prefs, j) ==
    IF j > Len(prefs) THEN el
    ELSE register_prefs(
           IF prefs[j] \in DOMAIN el.candidates THEN el
           ELSE register_candidate(el, prefs[j]).el,
           prefs, j + 1)

\* The one element of a set of one element.
TheOne(S) == CHOOSE x \in S : TRUE

\* The loop of from_votes over the votes: vote i becomes the ballot i of
\* strength Decimal("1.0"), registered on the election that the votes
\* before it have left.
RECURSIVE register_votes(_, _, _)
register_votes(el, votes, i) ==
    IF i > Len(votes) THEN el
    ELSE TheOne({register_votes(registered, votes, i + 1) :
                   registered \in {register_ballot(register_prefs(el, votes[i], 1),
                                                   i, votes[i], Dec(1)).el}})

\* Election.from_votes
from_votes(votes, n) == register_votes(NewElection(n), votes, 1)

\* --------------------------------------------------------------- actions
\* How a call ended.
Ended(op, exc) == [op |-> op, exc |-> exc]

\* How run_count(max_rounds=...) ended.
EndedCount(max_rounds, exc) ==
    [op |-> "run_count", exc |-> exc, max_rounds |-> max_rounds]

\* The call op returns r: the election it leaves and its exception.
Returns(op, r) ==
    /\ Becomes(r.el)
    /\ result' = Ended(op, r.err)

CountReturns(max_rounds, r) ==
    /\ Becomes(r.el)
    /\ result' = EndedCount(max_rounds, r.err)

\* _run_round has come to h: a finished round, or the first transfer of
\* its loop (a loop over nothing is over at once).
Starts(h) ==
    /\ Becomes(IF h.phase # "done" /\ Len(h.todo) = 0 THEN round_tail(h.el)
               ELSE h.el)
    /\ pc' = IF h.phase = "done" \/ Len(h.todo) = 0 THEN "idle" ELSE h.phase
    /\ queue' = h.todo
    /\ result' = Ended("_run_round", h.err)

\* One pass of the round's loop has left el: the next pass follows, or
\* the round's end.
Transfers(el) ==
    IF Len(queue) > 1
    THEN /\ Becomes(el)
         /\ queue' = Tail(queue)
         /\ UNCHANGED <<pc, result>>
    ELSE /\ Becomes(round_tail(el))
         /\ queue' = <<>>
         /\ pc' = "idle"
         /\ UNCHANGED result

\* The caller is between two calls, and no call has raised: an exception
\* ends the caller's use of the election.
Idle == pc = "idle" /\ result.exc = "none"

\* The vote lists from_votes is given.
VoteLists == UNION {[1..n -> PrefLists(CandidateIds)] : n \in 0..MaxVotes}

\* The identifiers of the ballots a caller registers after from_votes.
RegisteredIds == (MaxVotes + 1)..MaxBallots

\* The election is el, as constructed.
Constructed(el) ==
    /\ num_seats = el.num_seats
    /\ quota = el.quota
    /\ round_idx = el.round_idx
    /\ num_ballots = el.num_ballots
    /\ candidates = el.candidates
    /\ candidate_order = el.candidate_order
    /\ ballots = el.ballots
    /\ ballot_order = el.ballot_order
    /\ slices = el.slices
    /\ ballot_slices = el.ballot_slices
    /\ piles = el.piles
    /\ event_logs = el.event_logs
    /\ slice_id = el.slice_id

\* Election.from_votes(votes=..., num_seats=n)
Init ==
    /\ \E votes \in VoteLists, n \in 1..MaxSeats :
         Constructed(from_votes(votes, n))
    /\ pc = "idle"
    /\ queue = <<>>
    /\ result = Ended("from_votes", "none")

\* A caller's register_candidate(Candidate(id=...)).  A caller registers
\* before it counts, candidates before ballots.
RegisterCandidate ==
    /\ Idle
    /\ round_idx = -1
    /\ DOMAIN ballots \cap RegisteredIds = {}
    /\ \E id \in CandidateIds :
         Returns("register_candidate", register_candidate(El, id))
    /\ UNCHANGED <<pc, queue>>

\* A caller's register_ballot(Ballot(id=..., prefs=..., strength=...)),
\* naming registered candidates.
RegisterBallot ==
    /\ Idle
    /\ round_idx = -1
    /\ \E id \in RegisteredIds \cup DOMAIN ballots, strength \in Strengths :
       \E prefs \in IF id \in DOMAIN ballots THEN {ballots[id].prefs}
                    ELSE PrefLists(DOMAIN candidates) :
         Returns("register_ballot", register_ballot(El, id, prefs, strength))
    /\ UNCHANGED <<pc, queue>>

\* A caller's _run_round(), up to its first transfer.  A caller steps the
\* rounds or runs the full count, not one after the other.
StartRound ==
    /\ Idle
    /\ result.op # "run_count"
    /\ round_no(El) < MaxRoundCap
    /\ Starts(round_head(El))

\* The next transfer of the round and, after the last one, the round's end.
Transfer ==
    /\ pc \in {"elect", "eliminate"}
    /\ Transfers(transfer_one(El, pc, Head(queue)))

\* A caller's run_count(max_rounds=n)
RunCount ==
    /\ Idle
    /\ \E max_rounds \in 1..MaxRoundCap :
         CountReturns(max_rounds, run_count(El, max_rounds))
    /\ UNCHANGED <<pc, queue>>

\* A caller's reset()
Reset ==
    /\ Idle
    /\ Becomes(reset(El))
    /\ result' = Ended("reset", "none")
    /\ UNCHANGED <<pc, queue>>

Next ==
    \/ RegisterCandidate
    \/ RegisterBallot
    \/ StartRound
    \/ Transfer
    \/ RunCount

\* The election counted by steps and by full counts.
Spec == Init /\ [][Next]_vars

NextReset ==
    \/ Next
    \/ Reset

\* The same, with reset() called at any time between calls.
SpecReset == Init /\ [][NextReset]_vars

\* An election of four candidates, registered in one of two orders, and
\* three ballots of strengths 1.5, 1 and 0.5, counted round by round: the
\* smallest elections in which a third round ranks candidates whose earlier
\* tallies differ.
RankingIds == {"A", "B", "C", "D"}

RankingOrders == {<<"A", "B", "C", "D">>, <<"D", "C", "B", "A">>}

RankingStrengths == <<[c |-> 15, e |-> -1], Dec(1), [c |-> 5, e |-> -1]>>

RECURSIVE register_candidates(_, _, _)
register_candidates(el, order, i) ==
    IF i > Len(order) THEN el
    ELSE register_candidates(register_candidate(el, order[i]).el, order, i + 1)

RECURSIVE register_ballots(_, _, _)
register_ballots(el, prefs, i) ==
    IF i > Len(RankingStrengths) THEN el
    ELSE register_ballots(
           register_ballot(el, i, prefs[i], RankingStrengths[i]).el, prefs, i + 1)

InitRanking ==
    /\ \E order \in RankingOrders, n \in 1..MaxSeats :
       \E first, second, third \in PrefLists(RankingIds) :
         Constructed(register_ballots(
                        register_candidates(NewElection(n), order, 1),
                        <<first, second, third>>, 1))
    /\ pc = "idle"
    /\ queue = <<>>
    /\ result = Ended("register_ballot", "none")

NextRanking ==
    \/ StartRound
    \/ Transfer

SpecRanking == InitRanking /\ [][NextRanking]_vars

\* An election of three candidates and three ballots whose strengths are
\* weights a caller chooses, very small ones among them, counted round by
\* round.
WeightedOrder == <<"A", "B", "C">>

WeightedStrengths == {[c |-> 1, e |-> -7], [c |-> 2, e |-> -7], Dec(2)}

RECURSIVE register_weighted(_, _, _, _)
register_weighted(el, prefs, strengths, i) ==
    IF i > Len(prefs) THEN el
    ELSE register_weighted(
           register_ballot(el, i, prefs[i], strengths[i]).el, prefs, strengths, i + 1)

InitWeighted ==
    /\ \E n \in 1..MaxSeats :
       \E first, second, third \in PrefLists(CandidateIds) :
       \E heavy, medium, light \in WeightedStrengths :
         Constructed(register_weighted(
                        register_candidates(NewElection(n), WeightedOrder, 1),
                        <<first, second, third>>, <<heavy, medium, light>>, 1))
    /\ pc = "idle"
    /\ queue = <<>>
    /\ result = Ended("register_ballot", "none")

NextWeighted ==
    \/ StartRound
    \/ Transfer

SpecWeighted == InitWeighted /\ [][NextWeighted]_vars

\* The election of the README: two seats and ten votes, given as the lines
\* of a string whose first and last lines are blank.  The ten votes are
\* taken in each of their cyclic orders, the README's being the first.
ReadmeVotes ==
    <<<<"a", "b">>, <<"a", "b", "c">>, <<"a", "c", "e">>, <<"b">>, <<"b">>,
      <<"b", "c", "a">>, <<"b", "c", "a", "d", "e">>, <<"c", "d", "e">>,
      <<"c", "e">>, <<"c", "e", "d">>>>

Rotated(seq, k) == SubSeq(seq, k + 1, Len(seq)) \o SubSeq(seq, 1, k)

\* run_count's default max_rounds
DefaultMaxRounds == 100

InitReadme ==
    /\ \E k \in 0..(Len(ReadmeVotes) - 1) :
         Constructed(from_votes(<<<<>>>> \o Rotated(ReadmeVotes, k) \o <<<<>>>>, 2))
    /\ pc = "idle"
    /\ queue = <<>>
    /\ result = Ended("from_votes", "none")

\* A caller's run_count()
RunCountDefault ==
    /\ Idle
    /\ CountReturns(DefaultMaxRounds, run_count(El, DefaultMaxRounds))
    /\ UNCHANGED <<pc, queue>>

NextReadme ==
    \/ StartRound
    \/ Transfer
    \/ RunCount
    \/ RunCountDefault

SpecReadme == InitReadme /\ [][NextReadme]_vars

\* Two candidates and four ballots whose strengths have as many digits as
\* the arithmetic keeps: 0.667 twice, 1.33 and 2.67 at three digits,
\* registered in every order.
OrderIds == <<"A", "B">>

OrderStrengths ==
    <<[c |-> (2 * Pow10(DecimalPrec)) \div 3 + 1, e |-> -DecimalPrec],
      [c |-> (2 * Pow10(DecimalPrec)) \div 3 + 1, e |-> -DecimalPrec],
      [c |-> (4 * Pow10(DecimalPrec - 1)) \div 3, e |-> 1 - DecimalPrec],
      [c |-> (8 * Pow10(DecimalPrec - 1)) \div 3 + 1, e |-> 1 - DecimalPrec]>>

OrderPrefs == {<<"A">>, <<"B">>, <<"A", "B">>}

InitOrder ==
    /\ \E n \in 1..MaxSeats :
       \E prefs \in [1..Len(OrderStrengths) -> OrderPrefs] :
       \E p \in Permutations(1..Len(OrderStrengths)) :
         Constructed(register_weighted(
                        register_candidates(NewElection(n), OrderIds, 1),
                        prefs, [i \in 1..Len(OrderStrengths) |-> OrderStrengths[p[i]]], 1))
    /\ pc = "idle"
    /\ queue = <<>>
    /\ result = Ended("register_ballot", "none")

NextOrder ==
    \/ StartRound
    \/ Transfer
    \/ RunCount

SpecOrder == InitOrder /\ [][NextOrder]_vars

\* ---------------------------------------------------------------- claims
\* Exact arithmetic on the weights of a ballot's slices: every weight is
\* written as a whole number of units 10^scale, and the numbers are added
\* without rounding.
Scaled(x, scale) == x.c * Pow10(x.e - scale)

LowExp(exps) == CHOOSE m \in exps : \A x \in exps : m <= x

WeightExps(sl, chain) == {sl[chain[i]].weight.e : i \in 1..Len(chain)}

RECURSIVE ChainTotal(_, _, _, _)
ChainTotal(sl, chain, i, scale) ==
    IF i > Len(chain) THEN 0
    ELSE Scaled(sl[chain[i]].weight, scale) + ChainTotal(sl, chain, i + 1, scale)

\* A round has been executed and has returned.
AfterRound == pc = "idle" /\ round_idx >= 0 /\ result.exc = "none"

\* C1 (Conservation): after every round, for every valid ballot, the
\* weights of the slices of its chain add up to the ballot's strength.
C1_Conservation ==
    AfterRound =>
        \A b \in DOMAIN ballots :
            is_valid(ballots[b]) =>
                LET chain == ballot_slices[b]
                    scale == LowExp(WeightExps(slices, chain) \cup {ballots[b].strength.e})
                IN  ChainTotal(slices, chain, 1, scale) = Scaled(ballots[b].strength, scale)

\* The step is a transfer out of a pile that holds a slice of ballot b, no
\* preference of b after that slice's index is a running candidate with
\* tally below the quota, and b's chain gets no successor slice.
Exhausts(b) ==
    /\ pc \in {"elect", "eliminate"}
    /\ \E i \in 1..Len(PileOf(El, Head(queue))) :
         LET slice == slices[PileOf(El, Head(queue))[i]]
         IN  /\ slice.ballot_id = b
             /\ next_eligible(El, ballots[b].prefs, slice.current_idx + 1) = NoneVal
    /\ ballot_slices'[b] = ballot_slices[b]

\* What one step does to the chain of ballot b: its total does not grow,
\* does not exceed the strength, and shrinks only in a step that exhausts
\* (a full count, being many steps in one, is held to the first two only).
KeepsWeight(b) ==
    LET before == ballot_slices[b]
        after == ballot_slices'[b]
        scale == LowExp(WeightExps(slices, before) \cup WeightExps(slices', after)
                        \cup {ballots[b].strength.e})
        was == ChainTotal(slices, before, 1, scale)
        is == ChainTotal(slices', after, 1, scale)
    IN  /\ is <= was
        /\ is <= Scaled(ballots[b].strength, scale)
        /\ is < was => (result'.op = "run_count" \/ Exhausts(b))

\* C2 (Weight is never created): for every valid ballot the total weight
\* of its chain never exceeds the strength and never increases from one
\* step to the next; it decreases only in a transfer step in which no later
\* preference is running below the quota, and then no successor slice is
\* created.
C2_WeightNeverCreated ==
    [][\A b \in DOMAIN ballots : is_valid(ballots[b]) => KeepsWeight(b)]_vars

\* The valid ballots' strengths, added without rounding, in units 10^scale.
RECURSIVE ValidTotal(_, _)
ValidTotal(ids, scale) ==
    IF ids = {} THEN 0
    ELSE LET b == CHOOSE x \in ids : TRUE
         IN  (IF is_valid(ballots[b]) THEN Scaled(ballots[b].strength, scale) ELSE 0)
             + ValidTotal(ids \ {b}, scale)

\* C3 (Quota): from the first executed round onward, num_ballots is the sum
\* of the strengths of the valid ballots truncated to an integer, and quota
\* is floor(num_ballots / (num_seats + 1)) + 1; invalid ballots contribute
\* nothing, and later rounds change neither value.
C3_Quota ==
    round_idx >= 0 =>
        LET scale == LowExp({ballots[b].strength.e : b \in DOMAIN ballots} \cup {0})
            weight == ValidTotal(DOMAIN ballots, scale) \div Pow10(0 - scale)
        IN  /\ num_ballots = weight
            /\ quota = (weight \div (num_seats + 1)) + 1

\* A second round has run, over a ballot of positive strength that is
\* invalid and a valid ballot whose strength is not a whole number.
C3_Witness ==
    /\ round_idx >= 1
    /\ \E b \in DOMAIN ballots :
         ~is_valid(ballots[b]) /\ ballots[b].strength.c > 0
    /\ \E b \in DOMAIN ballots :
         is_valid(ballots[b]) /\ ballots[b].strength.e < 0

\* C4 (Terminality): under the round steps a candidate that is elected or
\* eliminated keeps its status; the only changes of status are from running
\* to elected and from running to eliminated.
C4_Terminality ==
    [][\A c \in DOMAIN candidates :
          /\ c \in DOMAIN candidates'
          /\ candidates'[c].status \in {"running", "elected", "eliminated"}
          /\ candidates[c].status # "running" =>
                candidates'[c].status = candidates[c].status]_vars

\* The event of round_index that records candidate c leaving the running.
Settled(round_index, c) ==
    /\ round_index \in DOMAIN event_logs
    /\ \E i \in 1..Len(event_logs[round_index]) :
         /\ event_logs[round_index][i].kind \in {"elected", "eliminated"}
         /\ event_logs[round_index][i].cand = c

\* A candidate left the running in round 1, and round 2 elected or
\* eliminated another.
C4_Witness ==
    \E c, d \in DOMAIN candidates : c # d /\ Settled(0, c) /\ Settled(1, d)

\* C5 (Termination): with num_seats >= 1 and at least num_seats candidates,
\* run_count on a fresh election with a cap of at least the number of
\* candidates stops with num_elected = num_seats.
C5_Termination ==
    (/\ result.op = "run_count"
     /\ result.exc # CountedError
     /\ num_seats >= 1
     /\ Len(candidate_order) >= num_seats
     /\ result.max_rounds >= Len(candidate_order))
    => (result.exc = "none" /\ num_elected(El) = num_seats)

\* A full count over three candidates that needed more than one round.
C5_Witness ==
    /\ result.op = "run_count"
    /\ result.exc = "none"
    /\ Len(candidate_order) = 3
    /\ Len(candidate_order) >= num_seats
    /\ result.max_rounds >= Len(candidate_order)
    /\ round_idx >= 1
    /\ num_elected(El) = num_seats

\* C6 (Re-entry): run_count on an election whose round number is not 0
\* fails before it executes a round, and leaves the statuses, slices,
\* tallies and round number (the whole election) as they were.
C6_Reentry ==
    [][(round_idx # -1 /\ result'.op = "run_count")
          => (result'.exc = CountedError /\ UNCHANGED elVars)]_vars

\* run_count has been called after a round that transferred weight.
C6_Witness ==
    /\ result.op = "run_count"
    /\ result.exc = CountedError
    /\ \E s \in DOMAIN slices : slices[s].current_idx > 0

\* The election built afresh from the registered candidates and ballots.
FreshlyBuilt ==
    create_slices(
        [NewElection(num_seats) EXCEPT
            !.candidates = [c \in DOMAIN candidates |-> NewCandidate],
            !.candidate_order = candidate_order,
            !.ballots = ballots,
            !.ballot_order = ballot_order],
        1)

\* run_count on the election as it is gives what it gives on the election
\* built afresh: no exception, the same statuses and the same tallies.
RecountsAsFresh(max_rounds) ==
    LET again == run_count(El, max_rounds)
        fresh == run_count(FreshlyBuilt, max_rounds)
    IN  /\ again.err = "none"
        /\ \A c \in DOMAIN candidates :
             /\ again.el.candidates[c].status = fresh.el.candidates[c].status
             /\ again.el.candidates[c].tallies = fresh.el.candidates[c].tallies

\* C7 (Reset allows recount): after reset the election is in the
\* not-started state (round number 0, quota and num_ballots unset, every
\* candidate running with no recorded tallies, one initial slice per valid
\* ballot in its first preference's pile), so that run_count succeeds and
\* gives the statuses and tallies of a freshly built election.
C7_ResetRecount ==
    result.op = "reset" =>
        /\ round_no(El) = 0
        /\ quota = NoneVal
        /\ num_ballots = NoneVal
        /\ \A c \in DOMAIN candidates :
             candidates[c].status = "running" /\ candidates[c].tallies = <<>>
        /\ slices = FreshlyBuilt.slices
        /\ ballot_slices = FreshlyBuilt.ballot_slices
        /\ piles = FreshlyBuilt.piles
        /\ \A max_rounds \in 1..MaxRoundCap : RecountsAsFresh(max_rounds)

\* What a duplicate registration leaves alone.
Registered == <<candidates, ballots, slices, ballot_slices, piles, slice_id>>

\* C8 (Duplicate registration): register_candidate with an id already in
\* candidates, and register_ballot with an id already in ballots, fail with
\* an error and leave candidates, ballots, slices, ballot_slices and piles
\* unchanged; no slice id is consumed.
C8_Duplicate ==
    [][/\ (result'.op = "register_candidate" /\ DOMAIN candidates' = DOMAIN candidates)
            => (result'.exc = DuplicateError /\ UNCHANGED Registered)
       /\ (result'.op = "register_ballot" /\ DOMAIN ballots' = DOMAIN ballots)
            => (result'.exc = DuplicateError /\ UNCHANGED Registered)]_vars

\* register_ballot has been called with the id of a ballot that has a
\* slice.
C8_Witness ==
    /\ result.op = "register_ballot"
    /\ result.exc = DuplicateError
    /\ slices # <<>>

\* The piles after slice s has been appended to the pile of candidate c.
PilesWith(c, s) ==
    [d \in DOMAIN piles \cup {c} |->
        IF d # c THEN piles[d]
        ELSE IF c \in DOMAIN piles THEN Append(piles[c], s) ELSE <<s>>]

\* C9 (Ballot registration): registering a valid ballot creates exactly one
\* slice, with the next unused slice id, current_idx 0, weight equal to the
\* strength and assigned_to the first preference, and appends its id to
\* ballot_slices of the ballot and to the pile of the first preference, and
\* to no other pile; an invalid ballot is stored and gets no slice and no
\* pile entry.
C9_BallotRegistration ==
    [][(result'.op = "register_ballot" /\ result'.exc = "none") =>
          \E id \in DOMAIN ballots' \ DOMAIN ballots :
             LET ballot == ballots'[id]
             IN  /\ ballots' = ballots @@ (id :> ballot)
                 /\ IF is_valid(ballot)
                    THEN /\ slice_id \notin DOMAIN slices
                         /\ DOMAIN slices' = DOMAIN slices \cup {slice_id}
                         /\ \A s \in DOMAIN slices : slices'[s] = slices[s]
                         /\ slices'[slice_id].ballot_id = id
                         /\ slices'[slice_id].current_idx = 0
                         /\ slices'[slice_id].weight = ballot.strength
                         /\ slices'[slice_id].assigned_to = ballot.prefs[1]
                         /\ slice_id' = slice_id + 1
                         /\ ballot_slices' = ballot_slices @@ (id :> <<slice_id>>)
                         /\ piles' = PilesWith(ballot.prefs[1], slice_id)
                    ELSE UNCHANGED <<slices, ballot_slices, piles, slice_id>>]_vars

\* A valid ballot with two preferences, the first of which already had a
\* pile, has been registered.
C9_Witness ==
    /\ result.op = "register_ballot"
    /\ result.exc = "none"
    /\ \E id \in RegisteredIds \cap DOMAIN ballots :
         /\ is_valid(ballots[id])
         /\ Len(ballots[id].prefs) = 2
         /\ Len(piles[ballots[id].prefs[1]]) > 1

\* The tallies of a candidate, one per round up to round n: a round before
\* the candidate's first recorded tally counts as zero.
TallyOfRound(el, c, n, k) ==
    LET tallies == el.candidates[c].tallies
        lead == n - Len(tallies)
    IN  IF k <= lead THEN Dec(0) ELSE tallies[k - lead]

\* The order of the claim between two candidates, over rounds 1..n: at the
\* most recent round in which the tallies differ x has the higher one, or
\* they differ in no round and x has the smaller id.
RanksBefore(el, x, y, n) ==
    \/ \E k \in 1..n :
         /\ \A j \in (k + 1)..n : TallyOfRound(el, x, n, j) = TallyOfRound(el, y, n, j)
         /\ DecLt(TallyOfRound(el, y, n, k), TallyOfRound(el, x, n, k))
    \/ /\ \A j \in 1..n : TallyOfRound(el, x, n, j) = TallyOfRound(el, y, n, j)
       /\ IdLt(x, y)

\* The rounds that have a tally when the round about to start ranks.
RoundsTallied(el) == IF round_no(el) <= 1 THEN 1 ELSE round_no(el) - 1

\* C10 (Ranking): in every round the running candidates are ordered by
\* current tally descending, then by the tallies of earlier rounds, the
\* most recent first, back to round 1, then by id ascending: a strict total
\* order that does not depend on the order of registration.
C10_Ranking ==
    (pc = "idle" /\ num_elected(El) < num_seats) =>
        LET el == round_ready(El)
            ranked == ranked_candidates(el)
            n == RoundsTallied(el)
        IN  /\ {ranked[i] : i \in 1..Len(ranked)}
                 = {c \in DOMAIN candidates : candidates[c].status = "running"}
            /\ \A i, j \in 1..Len(ranked) :
                 i < j => RanksBefore(el, ranked[i], ranked[j], n)

\* A round is about to rank two candidates whose current tallies are equal
\* and whose tallies of the round before differ, the one registered later
\* going first.
C10_Witness ==
    /\ pc = "idle"
    /\ num_elected(El) < num_seats
    /\ round_idx >= 1
    /\ LET el == round_ready(El)
           ranked == ranked_candidates(el)
           n == RoundsTallied(el)
       IN  \E i, j \in 1..Len(ranked) :
              /\ i < j
              /\ TallyOfRound(el, ranked[i], n, n) = TallyOfRound(el, ranked[j], n, n)
              /\ TallyOfRound(el, ranked[i], n, n - 1) # TallyOfRound(el, ranked[j], n, n - 1)
              /\ \E a, b \in 1..Len(candidate_order) :
                   a < b /\ candidate_order[a] = ranked[j] /\ candidate_order[b] = ranked[i]

\* The identifiers of S in ascending order.
RECURSIVE IdsAscending(_)
IdsAscending(S) ==
    IF S = {} THEN <<>>
    ELSE LET least == CHOOSE x \in S : \A y \in S : ~IdLt(y, x)
         IN  <<least>> \o IdsAscending(S \ {least})

\* An election that agrees with el on the identifiers, the statuses, the
\* recorded tallies, the quota, the seats and the round, and on nothing
\* else: it has no ballots, no slices and no piles, and its candidates are
\* registered in the order of their identifiers.
Forgetting(el) ==
    [NewElection(el.num_seats) EXCEPT
        !.quota = el.quota,
        !.round_idx = el.round_idx,
        !.candidates = [c \in DOMAIN el.candidates |->
                          [NewCandidate EXCEPT
                              !.status = el.candidates[c].status,
                              !.tallies = el.candidates[c].tallies]],
        !.candidate_order = IdsAscending(DOMAIN el.candidates)]

\* Two rounds decide alike: the same exception, the same candidates to
\* elect or to eliminate, in the same order, and the same statuses after
\* the decision.
SameDecision(h, g) ==
    /\ h.err = g.err
    /\ h.phase = g.phase
    /\ h.todo = g.todo
    /\ \A c \in DOMAIN h.el.candidates :
         h.el.candidates[c].status = g.el.candidates[c].status

\* Round 1 has been executed, every candidate had the same first tally and
\* that tally was below the quota.
FirstRoundAllTied ==
    /\ AfterRound
    /\ round_idx = 0
    /\ \A c, d \in DOMAIN candidates :
         candidates[c].tally_after_first = candidates[d].tally_after_first
    /\ \A c \in DOMAIN candidates :
         DecLt(candidates[c].tally_after_first, Dec(quota))

\* C11 (No-lookahead): the ranking of a round, and with it the candidates
\* the round elects or eliminates, is determined by the recorded tallies,
\* of which there are none for a later round, and the identifiers: the
\* round decides as it would on an election that has the same tallies and
\* identifiers and no ballots.  After a round 1 in which all candidates
\* were tied below the quota, the eliminated candidates are those with the
\* greatest identifiers.
C11_NoLookahead ==
    /\ (Idle /\ num_elected(El) < num_seats) =>
          /\ \A c \in DOMAIN candidates :
               Len(round_ready(El).candidates[c].tallies) <= round_no(round_ready(El))
          /\ ranked_candidates(round_ready(El))
               = ranked_candidates(Forgetting(round_ready(El)))
          /\ SameDecision(round_tallied(round_ready(El)),
                          round_tallied(Forgetting(round_ready(El))))
    /\ FirstRoundAllTied =>
          \A c, d \in DOMAIN candidates :
             (candidates[c].status = "eliminated" /\ candidates[d].status # "eliminated")
                => IdLt(d, c)

\* Round 1 found all candidates tied below the quota and eliminated one of
\* them, although it is the second preference of two ballots whose first
\* preference was not eliminated.
C11_Witness ==
    /\ FirstRoundAllTied
    /\ \E c \in DOMAIN candidates :
         /\ candidates[c].status = "eliminated"
         /\ \E a, b \in DOMAIN ballots :
              /\ a # b
              /\ \A x \in {a, b} :
                   /\ is_valid(ballots[x])
                   /\ Len(ballots[x].prefs) >= 2
                   /\ ballots[x].prefs[2] = c
                   /\ candidates[ballots[x].prefs[1]].status # "eliminated"

\* C12 (Batch election): when a round finds running candidates at or above
\* the quota, all of them are elected before any surplus is transferred;
\* and every successor slice a transfer creates goes to a candidate that
\* is running when the transfer is made: never to a candidate of the batch
\* or elected earlier, never to an eliminated candidate, and never to the
\* candidate whose pile is being transferred.
C12_BatchElection ==
    [][/\ (pc = "idle" /\ pc' = "elect") =>
            /\ slices' = slices
            /\ \A c \in DOMAIN candidates :
                 (candidates[c].status = "running"
                    /\ DecLe(Dec(quota'), tally(candidates'[c])))
                      => candidates'[c].status = "elected"
       /\ pc' = "elect" =>
            \A i \in 1..Len(queue') : candidates'[queue'[i]].status = "elected"
       /\ pc \in {"elect", "eliminate"} =>
            \A s \in DOMAIN slices' \ DOMAIN slices :
               /\ candidates[slices'[s].assigned_to].status = "running"
               /\ slices'[s].assigned_to # Head(queue)]_vars

\* Two candidates were elected together, the surplus of the first has
\* been transferred to a running candidate, and the second waits for its
\* transfer.
C12_Witness ==
    /\ pc = "elect"
    /\ Len(queue) >= 1
    /\ candidates[Head(queue)].status = "elected"
    /\ \E s \in DOMAIN slices :
         /\ slices[s].last_transfer_round = round_no(El)
         /\ slices[s].last_transfer_reason = "elected"
         /\ candidates[slices[s].assigned_to].status = "running"

\* The weight candidate d holds, the sum of the weights of the slices in
\* its pile added without rounding, has reached the quota.
HoldsQuota(d) ==
    LET pile == PileOf(El, d)
        scale == LowExp(WeightExps(slices, pile) \cup {0})
    IN  ChainTotal(slices, pile, 1, scale) >= Scaled(Dec(quota), scale)

\* C13 (No overflow to a candidate at or above quota): a candidate whose
\* held weight has reached the quota receives no successor slice in the
\* round, also when the round makes several transfers: no elect or
\* eliminate call creates a slice for a candidate that held the quota when
\* the call began.
C13_NoOverflow ==
    [][(pc \in {"elect", "eliminate"}) =>
          \A s \in DOMAIN slices' \ DOMAIN slices :
             ~HoldsQuota(slices'[s].assigned_to)]_vars

\* Candidate c was elected with a tally above the quota, so that elect
\* transferred its surplus.
ElectedWithSurplus(c) ==
    /\ candidates[c].status = "elected"
    /\ DecLt(Dec(quota), candidates[c].tally_before_done)

\* C14 (Surplus transfer): a candidate elected with tally t above the quota
\* q keeps its slices, each reduced to w*q/t, the rest of each going to the
\* next eligible preference; consequently its recorded tally at the end of
\* that round, and of every later round, is exactly the quota.
C14_SurplusTransfer ==
    AfterRound =>
        \A c \in DOMAIN candidates :
            ElectedWithSurplus(c) =>
                /\ tally(candidates[c]) = Dec(quota)
                /\ \A i \in 1..Len(PileOf(El, c)) :
                     slices[PileOf(El, c)[i]].assigned_to = c

\* The positions, counted from 1, of the preferences of ballot b after the
\* one at index idx (counted from 0) whose candidate is running with a
\* recorded tally below the quota.
LaterEligible(b, idx) ==
    {j \in (idx + 2)..Len(ballots[b].prefs) :
        /\ candidates[ballots[b].prefs[j]].status = "running"
        /\ ballots[b].prefs[j] # Head(queue)
        /\ DecLt(tally(candidates[ballots[b].prefs[j]]), Dec(quota))}

\* The step empties slice s and carries its weight in one new slice at
\* the first of the later eligible preferences, or in none if there is no
\* such preference.
CarriedOn(s) ==
    LET b == slices[s].ballot_id
        later == LaterEligible(b, slices[s].current_idx)
        new == {n \in DOMAIN slices' \ DOMAIN slices : slices'[n].ballot_id = b}
    IN  /\ slices'[s] = [slices[s] EXCEPT !.weight = Dec(0)]
        /\ IF later = {} THEN new = {}
           ELSE \E n \in new, j \in later :
                  /\ new = {n}
                  /\ \A k \in later : j <= k
                  /\ slices'[n].weight = slices[s].weight
                  /\ slices'[n].current_idx = j - 1
                  /\ slices'[n].assigned_to = ballots[b].prefs[j]

\* C15 (Elimination transfer): when a candidate is eliminated with
\* transfer, every slice of its pile ends with weight 0 and its whole
\* weight is carried by one new slice at the first later preference that
\* is running below the quota, or by none if the ballot is exhausted; no
\* other slice changes; and after every round the recorded tally of an
\* eliminated candidate is 0.
C15_EliminationTransfer ==
    [][/\ (pc = "eliminate") =>
            /\ candidates'[Head(queue)].status = "eliminated"
            /\ \A s \in DOMAIN slices :
                 IF \E i \in 1..Len(PileOf(El, Head(queue))) :
                       PileOf(El, Head(queue))[i] = s
                 THEN CarriedOn(s)
                 ELSE slices'[s] = slices[s]
            /\ \A n \in DOMAIN slices' \ DOMAIN slices :
                 \E i \in 1..Len(PileOf(El, Head(queue))) :
                    slices[PileOf(El, Head(queue))[i]].ballot_id = slices'[n].ballot_id
       /\ (pc' = "idle" /\ round_idx' >= 0 /\ result'.exc = "none") =>
            \A c \in DOMAIN candidates' :
               candidates'[c].status = "eliminated"
                  => tally(candidates'[c]) = Dec(0)]_vars

\* A candidate eliminated in round 1 had a slice that is now empty and was
\* carried on to another candidate, and a later round has recorded its
\* tally again.
C15_Witness ==
    /\ AfterRound
    /\ round_idx >= 1
    /\ \E c \in DOMAIN candidates :
         /\ candidates[c].status = "eliminated"
         /\ Settled(0, c)
         /\ Len(candidates[c].tallies) >= 2
         /\ tally(candidates[c]) = Dec(0)
         /\ \E s, n \in DOMAIN slices :
              /\ slices[s].assigned_to = c
              /\ slices[s].weight = Dec(0)
              /\ slices[n].ballot_id = slices[s].ballot_id
              /\ slices[n].last_transfer_reason = "eliminated"
              /\ DecLt(Dec(0), slices[n].weight)

\* The candidates that are running.
Running == {c \in DOMAIN candidates : candidates[c].status = "running"}

\* A round is about to start in which el is the election as ranked, no
\* running candidate is at or above the quota and the open seats are one
\* fewer than the running candidates.
OneTooMany(el) ==
    /\ pc = "idle"
    /\ result'.op = "_run_round"
    /\ num_elected(El) < num_seats
    /\ \A c \in Running : DecLt(tally(el.candidates[c]), Dec(el.quota))
    /\ num_to_elect(El) = Cardinality(Running) - 1

\* The step eliminates the running candidate that every other running
\* candidate of el ranks before, elects the others, touches no slice and
\* finishes the count.
EliminatesLast(el) ==
    /\ \E w \in Running :
         /\ \A d \in Running \ {w} : RanksBefore(el, d, w, RoundsTallied(el))
         /\ \A c \in DOMAIN candidates :
              candidates'[c].status =
                 IF c = w THEN "eliminated"
                 ELSE IF c \in Running THEN "elected"
                 ELSE candidates[c].status
    /\ slices' = slices
    /\ ballot_slices' = ballot_slices
    /\ Cardinality({c \in DOMAIN candidates' : candidates'[c].status = "elected"})
          = num_seats'
    /\ pc' = "idle"
    /\ result'.exc = "none"

\* C16 (Scenario D): in a round in which no running candidate has a tally
\* at or above the quota and the open seats are the running candidates
\* less one, exactly the worst-ranked running candidate is eliminated, no
\* slice changes weight and none is created, every other running
\* candidate is elected in the same round, and the count is finished with
\* num_elected = num_seats and nobody running.
C16_ScenarioD ==
    [][OneTooMany(round_ready(El)) => EliminatesLast(round_ready(El))]_vars

\* A second round eliminated a candidate without transfer: its slice
\* keeps its weight, the other running candidate was elected in the same
\* round and the seats are filled.
C16_Witness ==
    /\ AfterRound
    /\ result.op = "_run_round"
    /\ round_idx = 1
    /\ Running = {}
    /\ num_elected(El) = num_seats
    /\ \E c, d \in DOMAIN candidates :
         /\ candidates[c].status = "eliminated"
         /\ candidates[d].status = "elected"
         /\ Settled(1, c)
         /\ Settled(1, d)
         /\ PileOf(El, c) = <<>>
         /\ \E s \in DOMAIN slices :
              slices[s].assigned_to = c /\ DecLt(Dec(0), slices[s].weight)

\* C17 (Scenario A): for the README's election, built by from_votes with
\* two seats, run_count ends with quota 4, a and b elected and c, d and e
\* not elected.
C17_ScenarioA ==
    (/\ result.op = "run_count"
     /\ result.exc = "none"
     /\ result.max_rounds = DefaultMaxRounds)
    => /\ quota = 4
       /\ candidates["a"].status = "elected"
       /\ candidates["b"].status = "elected"
       /\ \A c \in {"c", "d", "e"} : candidates[c].status # "elected"

\* run_count has returned on the README's election with the votes in the
\* README's order, after three rounds.
C17_Witness ==
    /\ result.op = "run_count"
    /\ result.exc = "none"
    /\ result.max_rounds = DefaultMaxRounds
    /\ [i \in 1..Len(ReadmeVotes) |-> ballots[i + 1].prefs] = ReadmeVotes
    /\ num_seats = 2
    /\ round_idx = 2
    /\ candidates["c"].status = "eliminated"

\* C18 (Tally idempotence): in any reachable state, a second run_tally
\* right after a first, with no transfer in between, leaves every
\* candidate's tallies as the first call left them: the repeated call
\* overwrites the entry of the current round and appends nothing.
C18_TallyIdempotence ==
    result.exc = "none" =>
        \A c \in DOMAIN candidates :
            run_tally(run_tally(El)).candidates[c].tallies
                = run_tally(El).candidates[c].tallies

\* C19 (Seats never over-filled): in every state reached by round steps
\* from an election with num_seats >= 1, also after a round that elected
\* several candidates at once and after a forced finish, num_elected is
\* at most num_seats.
C19_SeatsNotOverfilled ==
    num_seats >= 1 => num_elected(El) <= num_seats

\* Round 1 elected two candidates at or above the quota at once and
\* filled both seats, with a third candidate still running.
C19_Witness ==
    /\ AfterRound
    /\ num_seats = 2
    /\ num_elected(El) = num_seats
    /\ Running # {}
    /\ \E c, d \in DOMAIN candidates :
         /\ c # d
         /\ \A x \in {c, d} :
              /\ candidates[x].status = "elected"
              /\ Settled(0, x)
              /\ DecLe(Dec(quota), candidates[x].tally_before_done)

\* A round is about to start in which el is the election as ranked, no
\* running candidate is at or above the quota and the open seats are
\* fewer than the running candidates less one.
TooManyRunning(el) ==
    /\ pc = "idle"
    /\ result'.op = "_run_round"
    /\ num_elected(El) < num_seats
    /\ \A c \in Running : DecLt(tally(el.candidates[c]), Dec(el.quota))
    /\ num_to_elect(El) < Cardinality(Running) - 1

\* The running candidates of el with the minimum tally.
AtMinimum(el) ==
    {c \in Running :
        \A d \in Running : ~DecLt(tally(el.candidates[d]), tally(el.candidates[c]))}

\* The running candidates of el whose tally is the minimum running tally.
ExactlyTied(el) ==
    {c \in Running :
        \E low \in AtMinimum(el) : tally(el.candidates[c]) = tally(el.candidates[low])}

\* The running candidates of el whose tally, rounded to six decimal
\* places, is the minimum running tally so rounded.
TolerantlyTied(el) ==
    {c \in Running :
        \E low \in AtMinimum(el) :
           quantize(tally(el.candidates[c])) = quantize(tally(el.candidates[low]))}

\* The step starts the eliminations of the round: the candidates to
\* eliminate are min(size of tied, running - open seats) candidates of
\* tied, at least one, the worst-ranked of them, the worst first, and
\* enough candidates stay running for the open seats.
StartsEliminating(el, tied) ==
    /\ pc' = "eliminate"
    /\ Len(queue') >= 1
    /\ Len(queue') = IF Cardinality(tied) < Cardinality(Running) - num_to_elect(El)
                     THEN Cardinality(tied)
                     ELSE Cardinality(Running) - num_to_elect(El)
    /\ \A i \in 1..Len(queue') : queue'[i] \in tied
    /\ \A i, j \in 1..Len(queue') :
         i < j => RanksBefore(el, queue'[j], queue'[i], RoundsTallied(el))
    /\ \A c \in tied :
         (\A i \in 1..Len(queue') : queue'[i] # c) =>
            \A i \in 1..Len(queue') :
               RanksBefore(el, c, queue'[i], RoundsTallied(el))
    /\ \A c \in DOMAIN candidates : candidates'[c].status = candidates[c].status
    /\ Cardinality(Running) - Len(queue') >= num_to_elect(El)

\* The running candidates, less those the round has still to eliminate,
\* are enough for the open seats.
Headroom == num_running(El) - Len(queue) >= num_to_elect(El)

\* A step of a round that eliminates with headroom eliminates the next
\* candidate of the list and keeps the headroom, to the end of the round.
KeepsHeadroom ==
    (pc = "eliminate" /\ Headroom) =>
        /\ candidates'[Head(queue)].status = "eliminated"
        /\ \A c \in Running \ {Head(queue)} : candidates'[c].status # "eliminated"
        /\ IF Len(queue) > 1
           THEN pc' = "eliminate" /\ queue' = Tail(queue) /\ Headroom'
           ELSE pc' = "idle" /\ num_running(El)' >= num_to_elect(El)'

\* C20 (Elimination headroom), as stated: in a round in which no running
\* candidate reaches the quota and the open seats are fewer than the
\* running candidates less one, the candidates eliminated, with transfer,
\* are taken from the bottom of the ranking among those whose tally equals
\* the minimum running tally, the worst-ranked first; they are min(size of
\* that set, running - open seats), at least one, and after the round the
\* running candidates are not fewer than the open seats.
C20_EliminationHeadroom ==
    [][/\ TooManyRunning(round_ready(El)) =>
            StartsEliminating(round_ready(El), ExactlyTied(round_ready(El)))
       /\ KeepsHeadroom]_vars

\* C20 (Elimination headroom), with the tie read as the code reads it: the
\* same, the candidates being taken among those whose tally, rounded to
\* six decimal places, equals the minimum running tally so rounded.
C20_HeadroomTolerant ==
    [][/\ TooManyRunning(round_ready(El)) =>
            StartsEliminating(round_ready(El), TolerantlyTied(round_ready(El)))
       /\ KeepsHeadroom]_vars

\* A round is about to eliminate two candidates whose tallies differ and
\* are equal when rounded to six decimal places.
C20_Witness ==
    /\ pc = "eliminate"
    /\ Len(queue) = 2
    /\ \A i \in 1..2 : candidates[queue[i]].status = "running"
    /\ tally(candidates[queue[1]]) # tally(candidates[queue[2]])
    /\ quantize(tally(candidates[queue[1]])) = quantize(tally(candidates[queue[2]]))

\* The last event logged by the count.
LastEvent ==
    LET log == event_logs[round_no(El) - 1] IN log[Len(log)]

\* A call of run_count has returned normally.
CountReturned == result.op = "run_count" /\ result.exc = "none"

\* C21 (round cap reporting): run_count runs at most max_rounds rounds and
\* returns normally when the cap stops it; a run that ends with every seat
\* filled records the "count finished" event, and the "round cap reached"
\* event is recorded only when the cap is reached before all seats are
\* filled.
C21_CapReporting ==
    CountReturned =>
        /\ round_no(El) <= result.max_rounds
        /\ LastEvent.kind =
             (IF num_elected(El) = num_seats THEN "finished" ELSE "cap")

\* C22 (tally history shape): after a count of N completed rounds every
\* registered candidate, whether or not it holds a slice and whatever its
\* status, has exactly N entries in tallies, the last one being the tally
\* of its pile at the end of round N.
C22_TallyHistory ==
    CountReturned =>
        \A c \in DOMAIN candidates :
            /\ Len(candidates[c].tallies) = round_no(El)
            /\ tally(candidates[c]) = SumWeights(El, PileOf(El, c), 1, Dec(0))

\* Candidate c is waiting in the queue of the round's transfers.
Queued(q, c) == \E i \in 1..Len(q) : q[i] = c

\* The step settles candidate c: it was running or waiting for its
\* transfer, and it is elected or eliminated with nothing left to do.
Leaves(c) ==
    /\ candidates[c].status = "running" \/ Queued(queue, c)
    /\ candidates'[c].status # "running"
    /\ ~Queued(queue', c)

\* The tally recorded for c when the step settles it: the one on record,
\* after the first tally when the step opens round 1.
RecordedTally(c) ==
    IF pc = "idle" THEN tally(round_ready(El).candidates[c])
    ELSE tally(candidates[c])

\* C23 (tally_before_done): when a step of a round settles a candidate, by
\* election or elimination, with or without transfer, the candidate's
\* tally_before_done is the tally recorded for it at that instant.
C23_TallyBeforeDone ==
    [][\A c \in DOMAIN candidates :
         (result'.op # "run_count" /\ Leaves(c)) =>
             candidates'[c].tally_before_done = RecordedTally(c)]_vars

\* The step is a call of _run_round.
RoundStepped == pc = "idle" /\ result'.op = "_run_round"

\* C24 (invariant-violation error), as stated: a call of _run_round on an
\* election in which no candidate is running fails with an error.
C24_NobodyRunning ==
    [][(RoundStepped /\ num_running(El) = 0) => result'.exc # "none"]_vars

\* C24, amended: a call of _run_round on an election with a seat still
\* open and no candidate running fails with the assertion error of the
\* ranking.
C24_NobodyRunningOpenSeat ==
    [][(RoundStepped /\ num_running(El) = 0 /\ num_elected(El) < num_seats)
           => result'.exc = NobodyError]_vars

\* A round step has failed for want of a running candidate.
C24_Witness ==
    /\ pc = "idle"
    /\ result = Ended("_run_round", NobodyError)
    /\ num_running(El) = 0
    /\ num_elected(El) < num_seats

\* What an election must leave alone when it redistributes nothing.
SlicesOf(el) == <<el.slices, el.ballot_slices, el.piles, el.slice_id>>

\* The weight held in each candidate's pile.
HeldWeights(el) ==
    [c \in DOMAIN el.candidates |-> SumWeights(el, PileOf(el, c), 1, Dec(0))]

\* The candidate has been elected outside the queue of transfers, by
\* _finish_run.
ForceElected(c) ==
    /\ candidates[c].status = "running"
    /\ candidates'[c].status = "elected"
    /\ ~Queued(queue, c) /\ ~Queued(queue', c)

\* C25 (no redistribution without surplus): the election of a candidate
\* whose tally equals the quota changes no slice weight and creates no
\* slice; a round step that only force-elects changes no slice, and a
\* forced election after the last transfer of a round adds nothing to what
\* that transfer did; so the weight held by every candidate is unchanged.
C25_NoRedistribution ==
    [][/\ (pc = "elect" /\ tally(candidates[Head(queue)]) = Dec(quota)) =>
              /\ SlicesOf(El') = SlicesOf(El)
              /\ HeldWeights(El') = HeldWeights(El)
       /\ (RoundStepped /\ \E c \in DOMAIN candidates : ForceElected(c)) =>
              <<slices', ballot_slices', slice_id'>>
                  = <<slices, ballot_slices, slice_id>>
       /\ (pc \in {"elect", "eliminate"}
              /\ \E c \in DOMAIN candidates : ForceElected(c)) =>
              SlicesOf(El') = SlicesOf(transfer_one(El, pc, Head(queue)))]_vars

\* One candidate elected with a tally equal to the quota and another
\* elected by force below it, in a round that created no slice.
C25_Witness ==
    /\ AfterRound
    /\ \E c \in DOMAIN candidates :
         /\ candidates[c].status = "elected"
         /\ candidates[c].tally_before_done = Dec(quota)
         /\ Len(PileOf(El, c)) > 0
    /\ \E c \in DOMAIN candidates :
         /\ candidates[c].status = "elected"
         /\ DecLt(candidates[c].tally_before_done, Dec(quota))
    /\ \A s \in DOMAIN slices : slices[s].last_transfer_round = -1

\* How many times slice s is listed in the pile.
TimesIn(pile, s) == Cardinality({i \in 1..Len(pile) : pile[i] = s})

\* C26 (pile membership): every slice is listed in exactly one pile, that
\* of the candidate in its assigned_to field, and exactly once there; no
\* operation of a count takes a slice out of its pile.
C26_PileMembership ==
    \A s \in DOMAIN slices :
        \A c \in DOMAIN candidates :
            TimesIn(PileOf(El, c), s) =
                (IF c = slices[s].assigned_to THEN 1 ELSE 0)

\* The chain of ballot b: its slices in the order of their creation.
ChainOf(b) == IF b \in DOMAIN ballot_slices THEN ballot_slices[b] ELSE <<>>

\* The shape of the slices and of the chains in one state.
ChainShape ==
    /\ \A s \in DOMAIN slices :
         /\ s < slice_id
         /\ \E i \in 1..Len(ChainOf(slices[s].ballot_id)) :
              ChainOf(slices[s].ballot_id)[i] = s
    /\ \A b \in DOMAIN ballot_slices :
         LET chain == ballot_slices[b]
             prefs == ballots[b].prefs
         IN  /\ Len(chain) <= Len(prefs)
             /\ \A i \in 1..Len(chain) :
                  /\ chain[i] \in DOMAIN slices
                  /\ slices[chain[i]].ballot_id = b
                  /\ slices[chain[i]].current_idx \in 0..(Len(prefs) - 1)
                  /\ slices[chain[i]].assigned_to =
                         prefs[slices[chain[i]].current_idx + 1]
                  /\ i < Len(chain) =>
                         /\ chain[i] < chain[i + 1]
                         /\ slices[chain[i]].current_idx
                                < slices[chain[i + 1]].current_idx
                         /\ candidates[slices[chain[i]].assigned_to].status
                                # "running"

\* C27 (slice chain shape): slice ids are distinct and handed out in
\* increasing order, every slice belongs to the chain of its ballot, and
\* the chain of each ballot lists its slices by increasing id and strictly
\* increasing current_idx, at most one for each preference, each assigned
\* to the preference at its current_idx, with nobody but the holder of the
\* last slice still running.
C27_SliceChain ==
    /\ []ChainShape
    /\ [][\A s \in DOMAIN slices' \ DOMAIN slices :
            /\ s >= slice_id
            /\ \A t \in DOMAIN slices : t < s]_vars

\* A ballot with a chain of two slices, the first held by a candidate that
\* is done and the second by one still running.
C27_Witness ==
    /\ AfterRound
    /\ \E b \in DOMAIN ballot_slices :
         /\ Len(ballot_slices[b]) = 2
         /\ candidates[slices[ballot_slices[b][2]].assigned_to].status = "running"
         /\ slices[ballot_slices[b][2]].current_idx = 1

\* The orders in which the registered ballots can be registered.
BallotOrders ==
    {order \in [1..Len(ballot_order) -> DOMAIN ballots] :
        \A b \in DOMAIN ballots : \E i \in 1..Len(ballot_order) : order[i] = b}

\* The election of the same seats, candidates and ballots, with the
\* ballots registered in the given order.
RegisteredInOrder(order) ==
    create_slices(
        [NewElection(num_seats) EXCEPT
            !.candidates = [c \in DOMAIN candidates |-> NewCandidate],
            !.candidate_order = candidate_order,
            !.ballots = ballots,
            !.ballot_order = order],
        1)

\* What a count has come to: how it ended, and each candidate's status
\* and tallies.
Outcome(r) ==
    [err |-> r.err,
     candidates |-> [c \in DOMAIN r.el.candidates |->
                       <<r.el.candidates[c].status, r.el.candidates[c].tallies>>]]

\* C28 (ballot-order independence): for the same candidates, seats and
\* ballots, whatever the order in which the ballots are registered, the
\* count has after each round the same candidate statuses and the same
\* tallies.
C28_BallotOrder ==
    (Idle /\ round_idx = -1) =>
        \A order \in BallotOrders, rounds \in 1..MaxRoundCap :
            Outcome(run_count(RegisteredInOrder(order), rounds))
                = Outcome(run_count(RegisteredInOrder(ballot_order), rounds))

\* C29 (stepping a finished count): a call of _run_round made when
\* num_elected >= num_seats adds one to the round number and changes no
\* candidate, slice, chain, pile, quota or num_ballots, and raises no
\* error.
C29_FinishedStep ==
    [][(RoundStepped /\ num_elected(El) >= num_seats) =>
          /\ round_idx' = round_idx + 1
          /\ result'.exc = "none"
          /\ pc' = "idle" /\ queue' = <<>>
          /\ UNCHANGED <<num_seats, quota, num_ballots, candidates,
                         candidate_order, ballots, ballot_order, slices,
                         ballot_slices, piles, slice_id>>]_vars

\* A finished count has been stepped once more: the round just opened
\* has logged nothing and the one before it filled the last seat.
C29_Witness ==
    /\ AfterRound
    /\ result.op = "_run_round"
    /\ num_elected(El) >= num_seats
    /\ round_idx >= 1
    /\ event_logs[round_idx] = <<>>
    /\ \E i \in 1..Len(event_logs[round_idx - 1]) :
         event_logs[round_idx - 1][i].kind = "elected"

\* The later preferences of ballot b, after the 0-based index idx, whose
\* candidate is running, the candidate being settled not counting.
LaterRunning(b, idx) ==
    {j \in (idx + 2)..Len(ballots[b].prefs) :
        /\ candidates[ballots[b].prefs[j]].status = "running"
        /\ ballots[b].prefs[j] # Head(queue)}

\* The step transfers the pile of the candidate at the head of the queue.
PileTransferred ==
    \/ pc = "eliminate"
    \/ pc = "elect" /\ DecLt(Dec(quota), tally(candidates[Head(queue)]))

\* The new slices that the step creates for ballot b.
NewSlicesOf(b) ==
    {n \in DOMAIN slices' \ DOMAIN slices : slices'[n].ballot_id = b}

\* Every running candidate's recorded tally is below the quota.
RunningBelowQuota ==
    \A c \in DOMAIN candidates :
        candidates[c].status = "running"
            => DecLt(tally(candidates[c]), Dec(quota))

\* C30: whenever a round step resolves successor slices, in a surplus
\* transfer or an elimination transfer, every running candidate has a
\* recorded tally strictly below the quota, so the successor of a slice
\* goes to the first later preference that is running, and a slice gets
\* no successor only when no later preference is running.
C30_RunningBelowQuota ==
    /\ []((pc \in {"elect", "eliminate"}) => RunningBelowQuota)
    /\ [][(pc \in {"elect", "eliminate"} /\ PileTransferred) =>
            \A i \in 1..Len(PileOf(El, Head(queue))) :
               LET s == PileOf(El, Head(queue))[i]
                   b == slices[s].ballot_id
                   later == LaterRunning(b, slices[s].current_idx)
               IN  IF later = {} THEN NewSlicesOf(b) = {}
                   ELSE \E n \in NewSlicesOf(b), j \in later :
                          /\ NewSlicesOf(b) = {n}
                          /\ \A k \in later : j <= k
                          /\ slices'[n].current_idx = j - 1
                          /\ slices'[n].assigned_to = ballots[b].prefs[j]]_vars

\* A surplus transfer is about to resolve a successor while another
\* candidate is running with votes of its own, the next preference of a
\* slice in the pile among the running.
C30_Witness ==
    /\ pc = "elect"
    /\ PileTransferred
    /\ \E c \in DOMAIN candidates :
         /\ candidates[c].status = "running"
         /\ DecLt(Dec(0), tally(candidates[c]))
    /\ \E i \in 1..Len(PileOf(El, Head(queue))) :
         LaterRunning(slices[PileOf(El, Head(queue))[i]].ballot_id,
                      slices[PileOf(El, Head(queue))[i]].current_idx) # {}

====
